---------------------------- MODULE Spec2Model ----------------------------
(***************************************************************************)
(* Conway's Game of Life TUI (src/src/main.rs): the App state, the key,    *)
(* pointer and resize handlers, the timed update, the generation engine    *)
(* and the run loop with its terminal setup and teardown.                  *)
(*                                                                         *)
(* Conventions of the model                                                *)
(*  - speed (f32, steps of 0.5) is held in tenths: 10 is 1.0, 5 is 0.5.    *)
(*    Every value the program reaches is an exact f32, so the fixed point  *)
(*    loses nothing.                                                       *)
(*  - SystemTime values are held as the time elapsed since they were       *)
(*    taken, in microseconds (last_updated_elapsed, msg_display_elapsed);  *)
(*    as_millis() is the truncating division the code performs.  The two   *)
(*    elapsed times saturate at a cap above every threshold they are       *)
(*    compared with.  The clock is assumed monotonic.                      *)
(*  - Option<String> is <<>> (None) or <<s>> (Some(s)).                    *)
(*  - When run returns, its locals (app, need_redraw) are dropped; the     *)
(*    model resets them to their initial values.                           *)
(***************************************************************************)
EXTENDS Integers, Sequences, FiniteSets, TLC

VARIABLES
    app,          \* struct App
    need_redraw,  \* run's local need_redraw
    pc,           \* position in run: setup, draw, input, update, teardown, returned
    size,         \* what terminal::size() returns: <<columns, rows>>
    term,         \* terminal modes: alternate screen, raw mode
    teardown,     \* the teardown statements executed so far
    pre_tick,     \* history: alive_cells and size at the latest next_generation call
    screen        \* what the latest draw call put on the terminal

vars == <<app, need_redraw, pc, size, term, teardown, pre_tick, screen>>

---------------------------------------------------------------------------
(* Program constants *)

UPDATE_MS == 200
MSG_DISPLAY_MS == 1000
U16 == 65536
InitialSpeed == 10
SpeedStep == 5
SpeedFloor == 5
MicrosPerMilli == 1000

(* Bounds of the model *)

\* generation is capped: a tick is not taken beyond it
MaxGen == 1
\* speed (tenths) is capped: up-arrow is not taken beyond it
MaxSpeed == 10
\* saturation of last_updated.elapsed(), microseconds (above 400 ms)
UpdateElapsedCap == 600300
\* saturation of msg_display_start.elapsed(), microseconds (above 1000 ms)
MsgElapsedCap == 1200600
\* the generation engine alone: cells are drawn within GenW columns
GenW == 6

\* time one loop iteration may take, microseconds: none measurable, or 200.1 ms
TimeSteps == {0, 200100}
\* terminal sizes of the full loop: one that shows both cell columns 0 and 2,
\* and one shrunk to column 0 alone
Sizes == {<<1, 1>>, <<3, 1>>}
\* the generation engine alone: the rows cells are drawn in
GenRows == {0, 1, 2}
GenH == Cardinality(GenRows)
\* terminal sizes of the generation engine alone: the full grid, and
\* terminals shrunk so that drawn cells lie on and beyond the edge
GenSizes == {<<GenW, GenH>>, <<GenW - 2, GenH - 1>>, <<GenW - 3, GenH - 1>>}

None == <<>>
Some(s) == <<s>>
MSG_SAVED == "Current cells saved!"
MSG_LOADED == "Last save loaded!"

---------------------------------------------------------------------------
(* Arithmetic helpers *)

Min(a, b) == IF a < b THEN a ELSE b

\* u16::saturating_sub
saturating_sub(a, b) == IF a >= b THEN a - b ELSE 0

\* u16 addition (wrapping, as in a release build)
u16_add(a, b) == (a + b) % U16

\* (lo..=hi).step_by(step) as the sequence of the values it yields
StepRange(lo, hi, step) ==
    IF lo > hi THEN <<>>
    ELSE [i \in 1..((hi - lo) \div step + 1) |-> lo + (i - 1) * step]

Range(s) == {s[i] : i \in 1..Len(s)}

\* Duration::as_millis: whole milliseconds
as_millis(micros) == micros \div MicrosPerMilli

\* (UPDATE_MS as f32 / self.speed).round() as u128, speed in tenths:
\* round-half-away-from-zero of 2000 / speed
update_interval(speed) == (2 * UPDATE_MS * 10 + speed) \div (2 * speed)

---------------------------------------------------------------------------
(* App::new *)

App_new ==
    [alive_cells |-> {},
     save |-> {},
     is_playing |-> FALSE,
     speed |-> InitialSpeed,
     last_updated_elapsed |-> 0,
     generation |-> 0,
     current_msg |-> None,
     msg_display_elapsed |-> 0]

\* to_point_coord(row, column): the column rounded down to even
\* variant: the column is used as it is
to_point_coord_identity(row, column) == <<column, row>>

\* variant: an odd column is rounded up
to_point_coord_rounds_up(row, column) ==
    IF column % 2 # 0 THEN <<column + 1, row>> ELSE <<column, row>>

to_point_coord(row, column) ==
    IF column % 2 # 0 THEN <<column - 1, row>> ELSE <<column, row>>

---------------------------------------------------------------------------
(* App::next_generation *)

Max(a, b) == IF a > b THEN a ELSE b

\* variant: each of the three neighbour columns clamped on its own, so that
\* a border column is visited twice
neighbor_cols_each_clamped(column, sz) ==
    <<Max(column - 2, 0), column, Min(column + 2, sz[1])>>

\* the columns and rows the neighbour loops visit for a scanned cell
neighbor_cols(column, sz) ==
    StepRange(saturating_sub(column, 2), Min(u16_add(column, 2), sz[1]), 2)

neighbor_rows(row, sz) ==
    StepRange(saturating_sub(row, 1), Min(u16_add(row, 1), sz[2]), 1)

\* every coordinate whose membership the neighbour loops test, one entry
\* per loop iteration
neighbor_visits(sz, coord) ==
    LET cols == neighbor_cols(coord[1], sz)
        rows == neighbor_rows(coord[2], sz)
    IN  {<<i, j>> \in (1..Len(cols)) \X (1..Len(rows)) :
            <<cols[i], rows[j]>> # coord}

\* variant: the `(col, row) == coord` test is missing, the cell counts itself
neighbor_count_with_self(alive, sz, coord) ==
    LET cols == neighbor_cols(coord[1], sz)
        rows == neighbor_rows(coord[2], sz)
    IN  Cardinality({v \in (1..Len(cols)) \X (1..Len(rows)) :
                        <<cols[v[1]], rows[v[2]]>> \in alive})

\* neighbor_count after the two inner loops: one increment per loop
\* iteration that finds a live cell
neighbor_count(alive, sz, coord) ==
    LET cols == neighbor_cols(coord[1], sz)
        rows == neighbor_rows(coord[2], sz)
    IN  Cardinality({v \in neighbor_visits(sz, coord) :
                        <<cols[v[1]], rows[v[2]]>> \in alive})

\* variant: the outer loops include size.0 and size.1
scan_order_inclusive(sz) ==
    LET cols == StepRange(0, sz[1], 2)
        rows == StepRange(0, sz[2], 1)
        nr == Len(rows)
    IN  [k \in 1..(Len(cols) * nr) |->
            LET column == cols[((k - 1) \div nr) + 1]
                row == rows[((k - 1) % nr) + 1]
            IN  <<column, row>>]

\* the order of the outer loops: columns 0, 2, .. below size.0, and for
\* each column the rows 0 .. size.1 - 1
scan_order(sz) ==
    LET cols == StepRange(0, sz[1] - 1, 2)
        rows == StepRange(0, sz[2] - 1, 1)
        nr == Len(rows)
    IN  [k \in 1..(Len(cols) * nr) |->
            LET column == cols[((k - 1) \div nr) + 1]
                row == rows[((k - 1) % nr) + 1]
            IN  <<column, row>>]

\* the outer loops over `order`: removed_points and new_points are built
\* while alive_cells is only read
RECURSIVE scan(_, _, _, _, _, _)
scan(alive, sz, order, k, removed_points, new_points) ==
    IF k > Len(order)
    THEN [removed_points |-> removed_points, new_points |-> new_points]
    ELSE LET coord == order[k]
             n == neighbor_count(alive, sz, coord)
         IN  IF coord \in alive /\ (n < 2 \/ n > 3)
             THEN scan(alive, sz, order, k + 1,
                       Append(removed_points, coord), new_points)
             ELSE IF n = 3
             THEN scan(alive, sz, order, k + 1,
                       removed_points, Append(new_points, coord))
             ELSE scan(alive, sz, order, k + 1, removed_points, new_points)

\* the two trailing loops: every removal, then every insertion
apply_points(alive, points) ==
    (alive \ Range(points.removed_points)) \cup Range(points.new_points)

next_generation_in(alive, sz, order) ==
    apply_points(alive, scan(alive, sz, order, 1, <<>>, <<>>))

\* a scan that applies each death and birth to the set as it goes
RECURSIVE scan_in_place(_, _, _, _)
scan_in_place(alive, sz, order, k) ==
    IF k > Len(order) THEN alive
    ELSE LET coord == order[k]
             n == neighbor_count(alive, sz, coord)
         IN  IF coord \in alive /\ (n < 2 \/ n > 3)
             THEN scan_in_place(alive \ {coord}, sz, order, k + 1)
             ELSE IF n = 3
             THEN scan_in_place(alive \cup {coord}, sz, order, k + 1)
             ELSE scan_in_place(alive, sz, order, k + 1)

next_generation_in_place(alive, sz) ==
    scan_in_place(alive, sz, scan_order(sz), 1)

next_generation(alive, sz) == next_generation_in(alive, sz, scan_order(sz))

---------------------------------------------------------------------------
(* Events: what event::poll / event::read deliver *)

NoEvent == [type |-> "None", code |-> "", kind |-> "", column |-> 0, row |-> 0]
OtherEvent == [type |-> "Other", code |-> "", kind |-> "", column |-> 0, row |-> 0]
KeyEvent(code) ==
    [type |-> "Key", code |-> code, kind |-> "", column |-> 0, row |-> 0]
MouseEvent(kind, column, row) ==
    [type |-> "Mouse", code |-> "", kind |-> kind, column |-> column, row |-> row]
ResizeEvent(columns, rows) ==
    [type |-> "Resize", code |-> "", kind |-> "", column |-> columns, row |-> rows]

\* "x" stands for every key the match does not name
KeyCodes == {"q", " ", "r", "c", "s", "l", "Up", "Down", "x"}
\* "Moved" stands for every kind the match does not name
MouseKinds == {"DownLeft", "DragLeft", "DownRight", "DragRight", "Moved"}

KeyEvents == {KeyEvent(code) : code \in KeyCodes}
MouseEvents(sz) ==
    {MouseEvent(kind, column, row) :
        kind \in MouseKinds, column \in 0..(sz[1] - 1), row \in 0..(sz[2] - 1)}
ResizeEvents == {ResizeEvent(s[1], s[2]) : s \in Sizes}

Events(sz) ==
    {NoEvent, OtherEvent} \cup KeyEvents \cup MouseEvents(sz) \cup ResizeEvents

---------------------------------------------------------------------------
(* App::handle_input *)

Redraw(a, b) == [app |-> a, quit |-> FALSE, need_redraw |-> b]

\* variant: starting or pausing also restarts the tick timer
key_space_restarts_timer(a) ==
    [a EXCEPT !.is_playing = ~a.is_playing, !.last_updated_elapsed = 0]

\* line 129
key_space(a) == [a EXCEPT !.is_playing = ~a.is_playing]

\* variant: reset also empties the cells
key_reset_clears_cells(a) ==
    [a EXCEPT !.is_playing = FALSE, !.alive_cells = {}, !.generation = 0]

\* lines 130-133
key_reset(a) == [a EXCEPT !.is_playing = FALSE, !.generation = 0]

\* lines 134-138
key_clear(a) ==
    [a EXCEPT !.is_playing = FALSE, !.alive_cells = {}, !.generation = 0]

\* lines 139-143
key_save(a) ==
    [a EXCEPT !.save = a.alive_cells,
              !.current_msg = Some(MSG_SAVED),
              !.msg_display_elapsed = 0]

\* variant: the save is merged into the live cells
key_load_merging(a) ==
    [a EXCEPT !.alive_cells = a.alive_cells \cup a.save,
              !.current_msg = Some(MSG_LOADED),
              !.msg_display_elapsed = 0]

\* lines 144-148
key_load(a) ==
    [a EXCEPT !.alive_cells = a.save,
              !.current_msg = Some(MSG_LOADED),
              !.msg_display_elapsed = 0]

\* line 149
key_up(a) == [a EXCEPT !.speed = a.speed + SpeedStep]

\* variant: the floor itself may be left
key_down_guard_inclusive(a) == a.speed >= SpeedFloor

\* line 150: the arm's guard; when it fails the key falls to the `_` arm
key_down_guard(a) == a.speed > SpeedFloor

key_down(a) == [a EXCEPT !.speed = a.speed - SpeedStep]

\* the Event::Key arm
\* variant: the fall-through arm does not skip `need_redraw = true`
handle_key_always_redraws(a, code) ==
    CASE code = "q" -> [app |-> a, quit |-> TRUE, need_redraw |-> FALSE]
      [] code = " " -> Redraw(key_space(a), TRUE)
      [] code = "r" -> Redraw(key_reset(a), TRUE)
      [] code = "c" -> Redraw(key_clear(a), TRUE)
      [] code = "s" -> Redraw(key_save(a), TRUE)
      [] code = "l" -> Redraw(key_load(a), TRUE)
      [] code = "Up" -> Redraw(key_up(a), TRUE)
      [] code = "Down" /\ key_down_guard(a) -> Redraw(key_down(a), TRUE)
      [] OTHER -> Redraw(a, TRUE)

handle_key(a, code) ==
    CASE code = "q" -> [app |-> a, quit |-> TRUE, need_redraw |-> FALSE]
      [] code = " " -> Redraw(key_space(a), TRUE)
      [] code = "r" -> Redraw(key_reset(a), TRUE)
      [] code = "c" -> Redraw(key_clear(a), TRUE)
      [] code = "s" -> Redraw(key_save(a), TRUE)
      [] code = "l" -> Redraw(key_load(a), TRUE)
      [] code = "Up" -> Redraw(key_up(a), TRUE)
      [] code = "Down" /\ key_down_guard(a) -> Redraw(key_down(a), TRUE)
      [] OTHER -> Redraw(a, FALSE)

\* the Event::Mouse arm, taken only while not playing
handle_mouse(a, kind, column, row) ==
    LET coord == to_point_coord(row, column)
    IN  CASE kind \in {"DragLeft", "DownLeft"} ->
                Redraw([a EXCEPT !.alive_cells = a.alive_cells \cup {coord}], TRUE)
          [] kind \in {"DragRight", "DownRight"} ->
                Redraw([a EXCEPT !.alive_cells = {c \in a.alive_cells : c # coord}],
                       TRUE)
          [] OTHER -> Redraw(a, FALSE)

\* variant: the arm has no guard
mouse_accepted_always(a) == TRUE

\* the guard of the Event::Mouse arm
mouse_accepted(a) == ~a.is_playing

handle_input(a, ev) ==
    CASE ev.type = "Key" -> handle_key(a, ev.code)
      [] ev.type = "Mouse" /\ mouse_accepted(a) ->
            handle_mouse(a, ev.kind, ev.column, ev.row)
      [] ev.type = "Resize" -> Redraw(a, TRUE)
      [] OTHER -> Redraw(a, FALSE)

---------------------------------------------------------------------------
(* App::update *)

\* time d passes before the call: both elapsed times grow, up to their caps
elapse(a, d) ==
    [a EXCEPT !.last_updated_elapsed = Min(@ + d, UpdateElapsedCap),
              !.msg_display_elapsed = Min(@ + d, MsgElapsedCap)]

\* variant: the tick fires at the interval itself
tick_due_at_threshold(a) ==
    a.is_playing
    /\ as_millis(a.last_updated_elapsed) >= update_interval(a.speed)

tick_due(a) ==
    a.is_playing
    /\ as_millis(a.last_updated_elapsed) > update_interval(a.speed)

\* variant: the message expires at the threshold itself
msg_due_at_threshold(a) ==
    as_millis(a.msg_display_elapsed) >= MSG_DISPLAY_MS /\ a.current_msg # None

msg_due(a) ==
    as_millis(a.msg_display_elapsed) > MSG_DISPLAY_MS /\ a.current_msg # None

\* variant: a tick counts two generations
update_counts_twice(a, sz) ==
    LET ticked ==
            IF tick_due(a)
            THEN [a EXCEPT !.alive_cells = next_generation(a.alive_cells, sz),
                           !.generation = a.generation + 2,
                           !.last_updated_elapsed = 0]
            ELSE a
        expired ==
            IF msg_due(a) THEN [ticked EXCEPT !.current_msg = None] ELSE ticked
    IN  [app |-> expired, need_redraw |-> tick_due(a) \/ msg_due(a)]

\* variant: the expiry of the message does not ask for a redraw
update_silent_expiry(a, sz) ==
    LET ticked ==
            IF tick_due(a)
            THEN [a EXCEPT !.alive_cells = next_generation(a.alive_cells, sz),
                           !.generation = a.generation + 1,
                           !.last_updated_elapsed = 0]
            ELSE a
        expired ==
            IF msg_due(a) THEN [ticked EXCEPT !.current_msg = None] ELSE ticked
    IN  [app |-> expired, need_redraw |-> tick_due(a)]

update(a, sz) ==
    LET ticked ==
            IF tick_due(a)
            THEN [a EXCEPT !.alive_cells = next_generation(a.alive_cells, sz),
                           !.generation = a.generation + 1,
                           !.last_updated_elapsed = 0]
            ELSE a
        expired ==
            IF msg_due(a) THEN [ticked EXCEPT !.current_msg = None] ELSE ticked
    IN  [app |-> expired, need_redraw |-> tick_due(a) \/ msg_due(a)]

---------------------------------------------------------------------------
(* draw *)

\* what one call of draw puts on the cleared terminal: the live cells, and
\* the info text, which is the message if there is one and the status line
\* otherwise, laid out for the terminal size
draw(a, sz) ==
    [cells |-> a.alive_cells,
     info |-> IF a.current_msg # None
              THEN a.current_msg
              ELSE <<a.is_playing, a.speed, a.generation,
                     Cardinality(a.alive_cells)>>,
     size |-> sz]

---------------------------------------------------------------------------
(* run *)

TermOff == [alternate_screen |-> FALSE, raw_mode |-> FALSE]
TermOn == [alternate_screen |-> TRUE, raw_mode |-> TRUE]
TeardownSteps == {"restore_screen", "disable_raw_mode"}

\* run returns: its locals are dropped
Return ==
    /\ pc' = "returned"
    /\ app' = App_new
    /\ need_redraw' = FALSE
    /\ pre_tick' = None
    /\ screen' = None

Init ==
    /\ app = App_new
    /\ need_redraw = FALSE
    /\ pc = "setup"
    /\ size \in Sizes
    /\ term = TermOff
    /\ teardown = {}
    /\ pre_tick = None
    /\ screen = None

\* lines 252-256: both setup calls succeed
Setup ==
    /\ pc = "setup"
    /\ term' = TermOn
    /\ app' = App_new
    /\ need_redraw' = TRUE
    /\ pc' = "draw"
    /\ UNCHANGED <<size, teardown, pre_tick, screen>>

\* line 252 or 253 fails and `?` returns: the alternate screen may have
\* been entered, raw mode is not on
SetupFail ==
    /\ pc = "setup"
    /\ \E entered \in BOOLEAN :
          term' = [alternate_screen |-> entered, raw_mode |-> FALSE]
    /\ Return
    /\ UNCHANGED <<size, teardown>>

\* lines 259-261: draw when the flag is set
Draw ==
    /\ pc = "draw"
    /\ pc' = "input"
    /\ pre_tick' = None
    /\ screen' = IF need_redraw THEN Some(draw(app, size)) ELSE screen
    /\ UNCHANGED <<app, need_redraw, size, term, teardown>>

\* line 260: draw fails (an I/O error, or terminal::size().unwrap())
DrawFail ==
    /\ pc = "draw"
    /\ need_redraw
    /\ Return
    /\ UNCHANGED <<size, term, teardown>>

\* variant: Quit is acted on only after the update call of the iteration
HandleInput_quit_after_update(ev) ==
    /\ pc = "input"
    /\ ev.code = "Up" => app.speed < MaxSpeed
    /\ LET r == handle_input(app, ev)
       IN  /\ app' = r.app
           /\ IF r.quit
              THEN pc' = "update" /\ UNCHANGED need_redraw
              ELSE pc' = "update" /\ need_redraw' = r.need_redraw
    /\ size' = IF ev.type = "Resize" THEN <<ev.column, ev.row>> ELSE size
    /\ UNCHANGED <<term, teardown, pre_tick, screen>>

\* lines 263-266: one call of handle_input that reads `ev`
HandleInput(ev) ==
    /\ pc = "input"
    /\ ev.code = "Up" => app.speed < MaxSpeed
    /\ LET r == handle_input(app, ev)
       IN  /\ app' = r.app
           /\ IF r.quit
              THEN pc' = "teardown" /\ UNCHANGED need_redraw
              ELSE pc' = "update" /\ need_redraw' = r.need_redraw
    /\ size' = IF ev.type = "Resize" THEN <<ev.column, ev.row>> ELSE size
    /\ UNCHANGED <<term, teardown, pre_tick, screen>>

\* line 124 or 125 fails and `?` returns
InputFail ==
    /\ pc = "input"
    /\ Return
    /\ UNCHANGED <<size, term, teardown>>

\* line 268: one call of update, made d microseconds after the previous
\* reading of the clock
Update(d) ==
    /\ pc = "update"
    /\ LET a == elapse(app, d)
           r == update(a, size)
       IN  /\ tick_due(a) => app.generation < MaxGen
           /\ app' = r.app
           /\ need_redraw' = (need_redraw \/ r.need_redraw)
           /\ pre_tick' = IF tick_due(a)
                          THEN Some([alive_cells |-> a.alive_cells, size |-> size])
                          ELSE None
    /\ pc' = "draw"
    /\ UNCHANGED <<size, term, teardown, screen>>

\* lines 271-278: both teardown statements run
Teardown ==
    /\ pc = "teardown"
    /\ teardown' = TeardownSteps
    /\ \E ok \in BOOLEAN :
          term' = [alternate_screen |-> FALSE, raw_mode |-> ~ok]
    /\ Return
    /\ UNCHANGED size

\* line 271 fails and `?` returns before disable_raw_mode
TeardownFail ==
    /\ pc = "teardown"
    /\ teardown' = {"restore_screen"}
    /\ \E left \in BOOLEAN :
          term' = [alternate_screen |-> ~left, raw_mode |-> TRUE]
    /\ Return
    /\ UNCHANGED size

Next ==
    \/ Setup
    \/ SetupFail
    \/ Draw
    \/ DrawFail
    \/ \E ev \in Events(size) : HandleInput(ev)
    \/ InputFail
    \/ \E d \in TimeSteps : Update(d)
    \/ Teardown
    \/ TeardownFail

Spec == Init /\ [][Next]_vars

---------------------------------------------------------------------------
(* The generation engine alone: the user has drawn a pattern while paused, *)
(* the terminal may have been resized since, play is on and the interval   *)
(* has passed; update is then called.                                      *)

GenCells == {<<c, r>> \in (0..(GenW - 1)) \X GenRows : c % 2 = 0}

InitGen ==
    /\ size \in GenSizes
    /\ \E cells \in SUBSET GenCells :
          app = [App_new EXCEPT !.alive_cells = cells,
                                !.is_playing = TRUE,
                                !.last_updated_elapsed = UpdateElapsedCap,
                                !.msg_display_elapsed = MsgElapsedCap]
    /\ need_redraw = FALSE
    /\ pc = "update"
    /\ term = TermOn
    /\ teardown = {}
    /\ pre_tick = None
    /\ screen = None

NextGen == \E d \in TimeSteps : Update(d)

SpecGen == InitGen /\ [][NextGen]_vars

---------------------------------------------------------------------------
(* Properties of the generation engine *)

\* the cells the outer loops of next_generation scan
Scanned(sz) == Range(scan_order(sz))

InViewport(cells, sz) == \A c \in cells : c[1] < sz[1] /\ c[2] < sz[2]

\* the 8 logical neighbours of a cell: columns two apart, rows one apart
LogicalNeighbours(c) ==
    {<<c[1] + dc, c[2] + dr>> : dc \in {-2, 0, 2}, dr \in {-1, 0, 1}} \ {c}

LiveNeighbours(cells, c) == Cardinality(LogicalNeighbours(c) \cap cells)

\* scanned cells all of whose logical neighbours lie inside the viewport
Interior(sz) ==
    {c \in Scanned(sz) :
        2 <= c[1] /\ c[1] <= sz[1] - 3 /\ 1 <= c[2] /\ c[2] <= sz[2] - 2}

Before == pre_tick[1].alive_cells
BeforeSize == pre_tick[1].size

\* C1: after a call of next_generation on live cells that all lie inside the
\* viewport, every interior scanned cell has the classic Life outcome: a live
\* cell is alive afterwards exactly when it had 2 or 3 live logical
\* neighbours, a dead cell exactly when it had 3.
C1_GenerationRule ==
    (pre_tick # None /\ InViewport(Before, BeforeSize)) =>
        \A c \in Interior(BeforeSize) :
            LET n == LiveNeighbours(Before, c)
            IN  (c \in app.alive_cells) <=>
                    (IF c \in Before THEN n \in {2, 3} ELSE n = 3)

\* a call has killed an interior live cell that had 4 or more live neighbours
C1_Witness ==
    /\ pre_tick # None
    /\ InViewport(Before, BeforeSize)
    /\ \E c \in Interior(BeforeSize) :
          /\ c \in Before
          /\ LiveNeighbours(Before, c) >= 4
          /\ c \notin app.alive_cells

\* every scanned cell decided from the set as it was before the call
SynchronousStep(cells, sz) ==
    {c \in cells \cup Scanned(sz) :
        IF c \in Scanned(sz)
        THEN LET n == neighbor_count(cells, sz, c)
             IN  (c \in cells /\ n \in {2, 3}) \/ n = 3
        ELSE c \in cells}

Reverse(s) == [i \in 1..Len(s) |-> s[Len(s) + 1 - i]]

\* the scanned cells row by row instead of column by column
RowMajor(sz) ==
    LET cols == StepRange(0, sz[1] - 1, 2)
        rows == StepRange(0, sz[2] - 1, 1)
        nc == Len(cols)
    IN  [k \in 1..(nc * Len(rows)) |->
            LET column == cols[((k - 1) % nc) + 1]
                row == rows[((k - 1) \div nc) + 1]
            IN  <<column, row>>]

BeforePoints == scan(Before, BeforeSize, scan_order(BeforeSize), 1, <<>>, <<>>)

\* C2: a call of next_generation decides every death and birth from the
\* live-cell set as it was before the call: the removal and insertion lists
\* share no coordinate, the result is the synchronous step of the old set,
\* and scanning the cells in another order gives the same result.
C2_SynchronousUpdate ==
    pre_tick # None =>
        /\ Range(BeforePoints.removed_points)
              \cap Range(BeforePoints.new_points) = {}
        /\ app.alive_cells = SynchronousStep(Before, BeforeSize)
        /\ \A order \in {Reverse(scan_order(BeforeSize)), RowMajor(BeforeSize)} :
              next_generation_in(Before, BeforeSize, order) = app.alive_cells

\* a call with deaths and births whose result differs from what applying
\* them to the set during the scan would have given
C2_Witness ==
    /\ pre_tick # None
    /\ BeforePoints.removed_points # <<>>
    /\ BeforePoints.new_points # <<>>
    /\ next_generation_in_place(Before, BeforeSize) # app.alive_cells

\* scanned cells in column 0 or row 0
TopLeftBorder(sz) == {c \in Scanned(sz) : c[1] = 0 \/ c[2] = 0}

\* C3 as stated: for a scanned cell in column 0 or row 0 the neighbour count
\* is the number of live cells among all its logical neighbours that have
\* non-negative coordinates.
C3_AllNonNegativeNeighbours ==
    pre_tick # None =>
        \A c \in TopLeftBorder(BeforeSize) :
            neighbor_count(Before, BeforeSize, c) =
                Cardinality({n \in LogicalNeighbours(c) \cap Before :
                                n[1] >= 0 /\ n[2] >= 0})

\* C3: for a scanned cell in column 0 or row 0 the neighbour count is the
\* number of live cells among its logical neighbours whose column lies in
\* 0..width and whose row lies in 0..height: nothing is counted across an
\* edge, the cell itself is not counted, and no neighbour is counted twice.
C3_BorderClamping ==
    pre_tick # None =>
        \A c \in TopLeftBorder(BeforeSize) :
            neighbor_count(Before, BeforeSize, c) =
                Cardinality({n \in LogicalNeighbours(c) \cap Before :
                                /\ 0 <= n[1] /\ n[1] <= BeforeSize[1]
                                /\ 0 <= n[2] /\ n[2] <= BeforeSize[2]})

\* a call in which the live cell (0,0) had its three in-bounds neighbours
\* alive, cells were alive on the opposite edges, and (0,0) survived
C3_Witness ==
    /\ pre_tick # None
    /\ BeforeSize = <<GenW, GenH>>
    /\ {<<0, 0>>, <<2, 0>>, <<0, 1>>, <<2, 1>>} \subseteq Before
    /\ \E c \in Before : c[1] >= GenW - 2
    /\ \E c \in Before : c[2] = GenH - 1
    /\ neighbor_count(Before, BeforeSize, <<0, 0>>) = 3
    /\ <<0, 0>> \in app.alive_cells

---------------------------------------------------------------------------
(* Properties of the handlers and of the loop *)

\* C4: the 's' key sets save to the live cells; no other step of the loop
\* changes save (pointer edits, ticks, clear, reset, speed keys, play
\* toggles, restores); the 'l' key sets the live cells to exactly save.
C4_SaveRestore ==
    [][/\ HandleInput(KeyEvent("s")) => app'.save = app.alive_cells
       /\ HandleInput(KeyEvent("l")) => app'.alive_cells = app.save
       /\ (pc' # "returned" /\ ~HandleInput(KeyEvent("s"))) =>
             app'.save = app.save]_vars

\* 'l' has just restored a non-empty save over live cells that a tick had
\* changed after the save
C4_Witness ==
    /\ pc = "update"
    /\ need_redraw
    /\ app.current_msg = Some(MSG_LOADED)
    /\ app.msg_display_elapsed = 0
    /\ app.generation > 0
    /\ app.save # {}
    /\ app.alive_cells = app.save

\* C5: the speed is always a multiple of 0.5 and at least 0.5; down-arrow
\* subtracts 0.5 when the speed is above 0.5 and otherwise changes nothing;
\* up-arrow adds 0.5; no other event changes the speed.
C5_SpeedFloor ==
    /\ [](app.speed % SpeedStep = 0 /\ app.speed >= SpeedFloor)
    /\ [][/\ HandleInput(KeyEvent("Down")) =>
                app' = IF app.speed > SpeedFloor
                       THEN [app EXCEPT !.speed = app.speed - SpeedStep]
                       ELSE app
          /\ HandleInput(KeyEvent("Up")) =>
                app' = [app EXCEPT !.speed = app.speed + SpeedStep]
          /\ (/\ pc' # "returned"
              /\ ~HandleInput(KeyEvent("Up"))
              /\ ~HandleInput(KeyEvent("Down"))) =>
                app'.speed = app.speed]_vars

\* handle_input has returned without a redraw at speed 0.5, as it does for a
\* down-arrow at the floor
C5_Witness ==
    /\ pc = "update"
    /\ ~need_redraw
    /\ app.speed = SpeedFloor

\* C6: a pointer event handled while playing changes nothing and requests
\* no redraw; a pointer event changes the live cells only while paused.
C6_PauseGating ==
    [][pc = "input" =>
          \A ev \in MouseEvents(size) :
             HandleInput(ev) =>
                /\ app.is_playing => (app' = app /\ need_redraw' = FALSE)
                /\ app'.alive_cells # app.alive_cells => ~app.is_playing]_vars

\* handle_input has returned while playing, without a redraw, with live
\* cells a pointer event could have removed
C6_Witness ==
    /\ pc = "update"
    /\ app.is_playing
    /\ ~need_redraw
    /\ app.alive_cells # {}

\* the message is present at the end of an update call
MsgShownAfterUpdate == pc = "draw" /\ app.current_msg # None

\* C7 as stated: after any update call a present message is at most 1000 ms
\* old.
C7_AtMost1000MsOld ==
    MsgShownAfterUpdate =>
        app.msg_display_elapsed <= MSG_DISPLAY_MS * MicrosPerMilli

\* C7: an update call keeps a present message while the whole milliseconds
\* elapsed since it was set are at most 1000 and clears it, requesting a
\* redraw, once they exceed 1000; after any update call a present message
\* is less than 1001 ms old.
C7_MessageExpiry ==
    /\ [](MsgShownAfterUpdate =>
             app.msg_display_elapsed < (MSG_DISPLAY_MS + 1) * MicrosPerMilli)
    /\ [][(pc = "update" /\ app.current_msg # None) =>
             \A d \in TimeSteps :
                Update(d) =>
                   LET age == as_millis(elapse(app, d).msg_display_elapsed)
                   IN  /\ age <= MSG_DISPLAY_MS =>
                             app'.current_msg = app.current_msg
                       /\ age > MSG_DISPLAY_MS =>
                             (app'.current_msg = None /\ need_redraw')]_vars

\* an update call made while paused has requested a redraw and left no
\* message, more than 1000 ms after a message was set
C7_Witness ==
    /\ pc = "draw"
    /\ need_redraw
    /\ ~app.is_playing
    /\ app.current_msg = None
    /\ as_millis(app.msg_display_elapsed) > MSG_DISPLAY_MS
    /\ app.save # {}

\* C8: 'c' empties the live cells, zeroes the generation and pauses; 'r'
\* zeroes the generation and pauses; each leaves every other field of the
\* state as it was (the live cells for 'r', and save, speed and the message).
C8_ClearVsReset ==
    [][/\ HandleInput(KeyEvent("c")) =>
             app' = [app EXCEPT !.alive_cells = {}, !.generation = 0,
                                !.is_playing = FALSE]
       /\ HandleInput(KeyEvent("r")) =>
             app' = [app EXCEPT !.generation = 0, !.is_playing = FALSE]]_vars

\* a key has just left the state paused at generation 0 with live cells, a
\* save, a message and a changed speed, as 'r' does
C8_Witness ==
    /\ pc = "update"
    /\ need_redraw
    /\ ~app.is_playing
    /\ app.generation = 0
    /\ app.alive_cells # {}
    /\ app.save # {}
    /\ app.current_msg # None
    /\ app.speed # InitialSpeed

\* C9: whenever run has returned, both teardown statements (restoring the
\* screen and cursor, disabling raw mode) have been executed.
C9_TeardownOnEveryExit == pc = "returned" => teardown = TeardownSteps

\* C10: is_playing starts false; the space key flips it and changes no other
\* field; 'r' and 'c' set it to false; no other event, and neither update
\* nor draw, changes it.
C10_PlayControl ==
    /\ [](pc = "setup" => ~app.is_playing)
    /\ [][/\ Setup => ~app'.is_playing
          /\ HandleInput(KeyEvent(" ")) =>
                app' = [app EXCEPT !.is_playing = ~app.is_playing]
          /\ HandleInput(KeyEvent("r")) => ~app'.is_playing
          /\ HandleInput(KeyEvent("c")) => ~app'.is_playing
          /\ (/\ pc' # "returned"
              /\ ~HandleInput(KeyEvent(" "))
              /\ ~HandleInput(KeyEvent("r"))
              /\ ~HandleInput(KeyEvent("c"))) =>
                app'.is_playing = app.is_playing]_vars

\* playing, after at least one tick, with a message shown and the tick
\* timer running: space was pressed and ticks, keys and time went by
C10_Witness ==
    /\ pc = "input"
    /\ app.is_playing
    /\ app.generation > 0
    /\ app.current_msg # None
    /\ app.last_updated_elapsed > 0

\* C11: the generation counter is 0 at construction; a step of the loop
\* leaves it unchanged, or adds exactly 1 (only in an update call made while
\* playing, together with one next_generation of the cells), or sets it to 0
\* (only the 'r' and 'c' keys); while paused it changes only to become 0.
C11_GenerationCounter ==
    /\ [](pc = "setup" => app.generation = 0)
    /\ [][pc' # "returned" =>
            /\ \/ app'.generation = app.generation
               \/ /\ app'.generation = app.generation + 1
                  /\ pc = "update"
                  /\ app.is_playing
                  /\ app'.alive_cells =
                        next_generation(app.alive_cells, size)
               \/ /\ app'.generation = 0
                  /\ HandleInput(KeyEvent("r")) \/ HandleInput(KeyEvent("c"))
            /\ HandleInput(KeyEvent("r")) => app'.generation = 0
            /\ HandleInput(KeyEvent("c")) => app'.generation = 0
            /\ (~app.is_playing /\ app'.generation # app.generation) =>
                    app'.generation = 0]_vars

\* an update call has just advanced the counter from 0 to 1 while a message
\* is on screen and a pattern is saved
C11_Witness ==
    /\ pc = "draw"
    /\ pre_tick # None
    /\ app.generation = 1
    /\ app.is_playing
    /\ app.save # {}
    /\ app.current_msg # None

\* 200 / speed rounded to the nearest millisecond (speed in tenths): the
\* integer n with n - 1/2 <= 2000 / speed < n + 1/2
NearestMillis(speed) ==
    CHOOSE n \in 0..(2 * UPDATE_MS) :
        /\ (2 * n - 1) * speed <= 2 * UPDATE_MS * 10
        /\ 2 * UPDATE_MS * 10 < (2 * n + 1) * speed

EvenDown(column) == column - (column % 2)

\* C13: while paused, a left press or drag at (column, row) makes
\* (column rounded down to even, row) a member of alive_cells, a right press
\* or drag makes it a non-member, every other coordinate keeps its
\* membership and no other field changes; any other pointer kind changes
\* nothing.
C13_PointerEdits ==
    [][(pc = "input" /\ ~app.is_playing) =>
        \A ev \in MouseEvents(size) :
            HandleInput(ev) =>
                LET coord == <<EvenDown(ev.column), ev.row>>
                IN  CASE ev.kind \in {"DownLeft", "DragLeft"} ->
                            /\ coord \in app'.alive_cells
                            /\ \A c \in (app.alive_cells \cup app'.alive_cells)
                                        \ {coord} :
                                    c \in app'.alive_cells
                                        <=> c \in app.alive_cells
                            /\ app' = [app EXCEPT
                                        !.alive_cells = app'.alive_cells]
                      [] ev.kind \in {"DownRight", "DragRight"} ->
                            /\ coord \notin app'.alive_cells
                            /\ \A c \in (app.alive_cells \cup app'.alive_cells)
                                        \ {coord} :
                                    c \in app'.alive_cells
                                        <=> c \in app.alive_cells
                            /\ app' = [app EXCEPT
                                        !.alive_cells = app'.alive_cells]
                      [] OTHER -> app' = app]_vars

\* paused on a viewport three columns wide with both cells alive, a redraw
\* requested by the pointer edit that was just handled
C13_Witness ==
    /\ pc = "update"
    /\ ~app.is_playing
    /\ need_redraw
    /\ size = <<3, 1>>
    /\ app.alive_cells = {<<0, 0>>, <<2, 0>>}
    /\ app.save = {}
    /\ app.current_msg = None
    /\ app.generation = 0

\* C14: a key that is none of q, space, r, c, s, l, up, or down with the
\* speed above 0.5, leaves every field of the state unchanged and makes
\* handle_input report that no redraw is needed.
C14_UnrecognizedKey ==
    [][/\ HandleInput(KeyEvent("x")) =>
            /\ app' = app
            /\ need_redraw' = FALSE
            /\ pc' = "update"
       /\ (HandleInput(KeyEvent("Down")) /\ app.speed <= SpeedFloor) =>
            /\ app' = app
            /\ need_redraw' = FALSE
            /\ pc' = "update"]_vars

\* a key was handled with no redraw requested while the simulation was
\* playing at the lowest speed with cells alive and a pattern saved
C14_Witness ==
    /\ pc = "update"
    /\ ~need_redraw
    /\ app.is_playing
    /\ app.speed = SpeedFloor
    /\ app.alive_cells # {}
    /\ app.save # {}

\* C15: the 'q' key leaves the state as it was and ends the loop in the same
\* iteration: the only step after it is the teardown of run, so no update,
\* no draw and no input read follows, whether paused or playing.
C15_QuitImmediate ==
    [][/\ HandleInput(KeyEvent("q")) =>
            /\ app' = app
            /\ need_redraw' = need_redraw
            /\ size' = size
            /\ pc' = "teardown"
       /\ pc = "teardown" =>
            /\ pc' = "returned"
            /\ ~Draw
            /\ \A d \in TimeSteps : ~Update(d)
            /\ \A ev \in Events(size) : ~HandleInput(ev)]_vars

\* 'q' was read while playing, with a generation counted and a message
\* still on screen
C15_Witness ==
    /\ pc = "teardown"
    /\ app.is_playing
    /\ app.generation > 0
    /\ app.current_msg # None
    /\ app.alive_cells # {}

\* every coordinate whose membership in alive_cells one call of
\* next_generation tests: the neighbour-loop coordinates of each scanned
\* cell, and the scanned cell itself
tested_coords(sz) ==
    UNION {{<<neighbor_cols(coord[1], sz)[v[1]],
              neighbor_rows(coord[2], sz)[v[2]]>> :
                v \in neighbor_visits(sz, coord)} \cup {coord} :
            coord \in Scanned(sz)}

\* every coordinate one call of next_generation inserts
inserted_coords(alive, sz) ==
    Range(scan(alive, sz, scan_order(sz), 1, <<>>, <<>>).new_points)

\* C16: during next_generation with viewport (width, height), every
\* coordinate tested for membership in alive_cells and every coordinate
\* inserted lies in [0, width-1] x [0, height-1].
C16_NoOutOfRangeCoordinate ==
    pre_tick # None =>
        InViewport(tested_coords(BeforeSize)
                    \cup inserted_coords(Before, BeforeSize), BeforeSize)

\* the fields of the state that draw shows
RenderedFields(a) ==
    <<a.alive_cells, a.is_playing, a.speed, a.generation, a.current_msg>>

\* C17: in every iteration in which handle_input or update changes a
\* rendered field (alive_cells, is_playing, speed, generation, current_msg),
\* or a resize event is read, the dirty flag is true at the end of the
\* iteration (a flag set by handle_input survives the update call), the next
\* iteration then draws before it reads input, and so whenever input is
\* polled the screen shows the current state at the current size.
C17_RedrawCompleteness ==
    /\ [](pc = "input" => screen = Some(draw(app, size)))
    /\ [][/\ (pc = "input" /\ pc' = "update") =>
               /\ (RenderedFields(app') # RenderedFields(app)) => need_redraw'
               /\ (\E ev \in ResizeEvents : HandleInput(ev)) => need_redraw'
          /\ (pc = "update" /\ pc' = "draw") =>
               /\ (RenderedFields(app') # RenderedFields(app)) => need_redraw'
               /\ need_redraw => need_redraw'
          /\ (pc = "draw" /\ pc' = "input" /\ need_redraw) =>
               screen' = Some(draw(app, size))]_vars

\* input is polled with the screen showing the status line of a simulation
\* playing at the lowest speed after one generation, one cell alive, the
\* save message expired
C17_Witness ==
    /\ pc = "input"
    /\ screen # None
    /\ screen[1].info = <<TRUE, SpeedFloor, 1, 1>>
    /\ app.save # {}
    /\ app.current_msg = None

EvenColumns(cells) == \A c \in cells : c[1] % 2 = 0

\* C18: in every reachable state every coordinate in alive_cells and in
\* save has an even column; so has every cell next_generation scans, the
\* only coordinates a generation advance can insert.
C18_EvenColumns ==
    /\ EvenColumns(app.alive_cells)
    /\ EvenColumns(app.save)
    /\ EvenColumns(Scanned(size))

\* after pointer edits on the wide viewport, a save, a resize to the narrow
\* one and a generation advance: a cell is alive outside the viewport and
\* the save differs from the live cells
C18_Witness ==
    /\ pc = "input"
    /\ size = <<1, 1>>
    /\ <<2, 0>> \in app.alive_cells
    /\ app.save # {}
    /\ app.save # app.alive_cells
    /\ app.generation > 0

Outside(c, sz) == c[1] >= sz[1] \/ c[2] >= sz[2]

\* C19: next_generation with viewport (width, height) never changes the
\* membership of a coordinate with column >= width or row >= height.
C19_OutsideFrozen ==
    pre_tick # None =>
        \A c \in Before \cup app.alive_cells :
            Outside(c, BeforeSize) =>
                (c \in app.alive_cells <=> c \in Before)

\* a generation advance in which a cell inside the viewport died while a
\* live cell outside it, with fewer than two live neighbours, stayed alive
C19_Witness ==
    /\ pre_tick # None
    /\ \E c \in Before :
            /\ Outside(c, BeforeSize)
            /\ LiveNeighbours(Before, c) < 2
            /\ c \in app.alive_cells
    /\ \E c \in Before :
            /\ ~Outside(c, BeforeSize)
            /\ c \notin app.alive_cells

===========================================================================
